---- MODULE Spec2Model ----
(***************************************************************************)
(* A model of src/src/push_cloudwatch_metric.py (Python 2): the command    *)
(* line tool that parses metric names, values, units and dimensions and    *)
(* publishes them to CloudWatch.                                           *)
(*                                                                         *)
(* A Python string is a sequence of symbols.  A symbol is a separator      *)
(* (",", "=", "\n") or a fragment of text holding no separator ("a", "1",  *)
(* "Count", "AWSAccessKeyId"); two adjacent fragments are the text of both *)
(* concatenated, so <<"Count","Count">> is the string "CountCount".        *)
(* An optional value (None or a string) is a record [given, text].         *)
(***************************************************************************)
EXTENDS Integers, Sequences, FiniteSets, TLC

VARIABLES
    pc,             \* position of the running code
    args,           \* the argparse namespace: the command line as it is read
    names,          \* main's local names
    values,         \* main's local values
    units,          \* main's local units
    dimensions,     \* main's local dimensions, or the dict a direct call returns
    METADATA,       \* the module global METADATA
    AWSAccessKeyId, \* the module global AWSAccessKeyId
    AWSSecretKey,   \* the module global AWSSecretKey
    trace,          \* the calls and I/O steps made so far, in order
    error,          \* the exception that ended the run, if any
    exit_status,    \* the process's exit status once it has ended
    stdout,         \* what the dry run printed
    published       \* the put_metric_data calls made, with their connection

vars == <<pc, args, names, values, units, dimensions, METADATA, AWSAccessKeyId,
          AWSSecretKey, trace, error, exit_status, stdout, published>>

----------------------------------------------------------------------------
(* Bounds of the model. *)

MaxArgLen == 3

MaxDimLen == 7

MaxCredLines == 3

----------------------------------------------------------------------------
(* Python values. *)

PyNone == [given |-> FALSE, text |-> <<>>]

Some(s) == [given |-> TRUE, text |-> s]

Truthy(o) == o.given /\ o.text # <<>>

EmptyDict == [k \in {} |-> <<>>]

NoError == [type |-> "", message |-> ""]

StringsUpTo(alphabet, n) == UNION {[1..m -> alphabet] : m \in 0..n}

RECURSIVE Split(_, _)
Split(s, sep) ==
    IF \E i \in 1..Len(s) : s[i] = sep
    THEN LET i == CHOOSE j \in 1..Len(s) :
                      s[j] = sep /\ \A h \in 1..(j - 1) : s[h] # sep
         IN  <<SubSeq(s, 1, i - 1)>> \o Split(SubSeq(s, i + 1, Len(s)), sep)
    ELSE <<s>>

RECURSIVE Join(_, _)
Join(parts, sep) ==
    IF parts = <<>> THEN <<>>
    ELSE IF Len(parts) = 1 THEN parts[1]
    ELSE parts[1] \o <<sep>> \o Join(Tail(parts), sep)

RECURSIVE Strip(_, _)
Strip(s, ch) ==
    IF s # <<>> /\ s[1] = ch THEN Strip(Tail(s), ch)
    ELSE IF s # <<>> /\ s[Len(s)] = ch THEN Strip(SubSeq(s, 1, Len(s) - 1), ch)
    ELSE s

RECURSIVE Repeat(_, _)
Repeat(x, n) == IF n <= 0 THEN <<>> ELSE <<x>> \o Repeat(x, n - 1)

Count(ev) == Cardinality({i \in 1..Len(trace) : trace[i] = ev})

----------------------------------------------------------------------------
(* The module constants. *)

UNIT_CHOICES ==
    { <<u>> : u \in
        {"Seconds", "Microseconds", "Milliseconds", "Bytes", "Kilobytes",
         "Megabytes", "Gigabytes", "Terabytes", "Bits", "Kilobits", "Megabits",
         "Gigabits", "Terabits", "Percent", "Count", "Bytes/Second",
         "Kilobytes/Second", "Megabytes/Second", "Gigabytes/Second",
         "Terabytes/Second", "Bits/Second", "Kilobits/Second",
         "Megabits/Second", "Gigabits/Second", "Terabits/Second",
         "Count/Second"} }

(* The attributes of the namespace parse_args returns: one per add_argument, *)
(* named after its first long option string (or the positional's name).     *)
ArgDests ==
    {"namespace", "name", "value", "unit", "dimensions", "credential",
     "instance_specific", "verify"}

(* cloudwatch.regions(): the names of the regions boto knows. *)
KnownRegions == {<<"us-east-1">>, <<"eu-west-1">>}

----------------------------------------------------------------------------
(* The parsing functions. *)

_parse_name(name) == Split(name, ",")

Digits == {"0", "1", "2", "3", "4", "5", "6", "7", "8", "9"}

DigitValue(c) ==
    CASE c = "0" -> 0 [] c = "1" -> 1 [] c = "2" -> 2 [] c = "3" -> 3
      [] c = "4" -> 4 [] c = "5" -> 5 [] c = "6" -> 6 [] c = "7" -> 7
      [] c = "8" -> 8 [] c = "9" -> 9

(* float(s) on the strings of the model: a non-empty run of decimal digits  *)
(* converts, anything else (the empty string, a letter) raises.             *)
IsFloat(s) == s # <<>> /\ \A i \in 1..Len(s) : s[i] \in Digits

RECURSIVE Float(_)
Float(s) ==
    IF s = <<>> THEN 0 ELSE 10 * Float(SubSeq(s, 1, Len(s) - 1)) + DigitValue(s[Len(s)])

_parse_value_unchecked(value) ==
    LET raw == Split(value, ",")
    IN  [ok |-> TRUE,
         val |-> [i \in 1..Len(raw) |-> IF IsFloat(raw[i]) THEN Float(raw[i]) ELSE 0],
         error |-> NoError]

_parse_value(value) ==
    LET raw == Split(value, ",")
    IN  IF \A i \in 1..Len(raw) : IsFloat(raw[i])
        THEN [ok |-> TRUE, val |-> [i \in 1..Len(raw) |-> Float(raw[i])],
              error |-> NoError]
        ELSE [ok |-> FALSE, val |-> <<>>,
              error |-> [type |-> "ValueError",
                         message |-> "metric value should be float."]]

_parse_unit_unchecked(unit) ==
    [ok |-> TRUE,
     val |-> IF Truthy(unit) THEN Split(unit.text, ",") ELSE <<>>,
     error |-> NoError]

_parse_unit(unit) ==
    LET units_ == IF Truthy(unit) THEN Split(unit.text, ",") ELSE <<>>
    IN  IF \A i \in 1..Len(units_) : units_[i] \in UNIT_CHOICES
        THEN [ok |-> TRUE, val |-> units_, error |-> NoError]
        ELSE [ok |-> FALSE, val |-> <<>>,
              error |-> [type |-> "ValueError",
                         message |-> "unit must be one of the following:"]]

(* dimension_dict[k].extend([v]) on a defaultdict(list). *)
DictExtend(d, k, v) ==
    [x \in (DOMAIN d) \cup {k} |->
        IF x = k THEN (IF k \in DOMAIN d THEN d[k] ELSE <<>>) \o <<v>> ELSE d[x]]

PairValueSecondOnly(kv) == IF Len(kv) >= 2 THEN kv[2] ELSE <<>>

(* The value '='.join(kv[1:]) of one pair. *)
PairValue(kv) == Join(Tail(kv), "=")

(* The first loop of _parse_dimension, from pair i on. *)
RECURSIVE Accumulate(_, _, _)
Accumulate(key_val, i, d) ==
    IF i > Len(key_val) THEN d
    ELSE LET kv == Split(key_val[i], "=")
         IN  Accumulate(key_val, i + 1, DictExtend(d, kv[1], PairValue(kv)))

(* The second loop: a list of one value becomes the value, any other list a *)
(* tuple.                                                                   *)
Collapse(d) ==
    [k \in DOMAIN d |->
        IF Len(d[k]) = 1 THEN [kind |-> "str", items |-> <<d[k][Len(d[k])]>>]
        ELSE [kind |-> "tuple", items |-> d[k]]]

_parse_dimension(dims) ==
    IF ~Truthy(dims) THEN [none |-> TRUE, dict |-> EmptyDict]
    ELSE [none |-> FALSE,
          dict |-> Collapse(Accumulate(Split(dims.text, ","), 1, EmptyDict))]

(* units = units + ['None'] * (len(names) - len(units)): a list times a     *)
(* number that is not positive is the empty list.                           *)
PadUnits(names_, units_) ==
    IF Len(names_) # Len(units_)
    THEN units_ \o Repeat(<<"None">>, Len(names_) - Len(units_))
    ELSE units_

----------------------------------------------------------------------------
(* The resolvers. *)

Unbound == [bound |-> FALSE, text |-> <<>>]

Bound(s) == [bound |-> TRUE, text |-> s]

(* The loop of _populate_credential from line i on.  The function has no    *)
(* global statement, so its two assignments bind names local to the call:   *)
(* loc holds them, each unbound until its first assignment.                 *)
RECURSIVE ScanCredential(_, _, _)
ScanCredential(credential, i, loc) ==
    IF i > Len(credential) THEN loc
    ELSE LET line == credential[i]
             parts == Split(line, "=")
             hasEq == \E j \in 1..Len(line) : line[j] = "="
             l1 == IF hasEq /\ parts[1] = <<"AWSAccessKeyId">>
                   THEN [loc EXCEPT !.AWSAccessKeyId = Bound(Strip(parts[2], "\n"))]
                   ELSE loc
             l2 == IF hasEq /\ parts[1] = <<"AWSSecretKey">>
                   THEN [l1 EXCEPT !.AWSSecretKey = Bound(Strip(parts[2], "\n"))]
                   ELSE l1
         IN  ScanCredential(credential, i + 1, l2)

UnboundLocalError(name) ==
    [type |-> "UnboundLocalError",
     message |-> name]

(* _populate_credential: the exception it raises (NoError when it returns). *)
(* `not (AWSAccessKeyId and AWSSecretKey)` reads the first local, and the   *)
(* second only when the first is true.                                      *)
_populate_credential(credential) ==
    LET loc == ScanCredential(credential, 1,
                   [AWSAccessKeyId |-> Unbound, AWSSecretKey |-> Unbound])
        empty == [type |-> "ValueError",
                  message |-> "AWSAccessKeyId or AWSSecretKey is empty"]
    IN  IF ~loc.AWSAccessKeyId.bound THEN UnboundLocalError("AWSAccessKeyId")
        ELSE IF loc.AWSAccessKeyId.text = <<>> THEN empty
        ELSE IF ~loc.AWSSecretKey.bound THEN UnboundLocalError("AWSSecretKey")
        ELSE IF loc.AWSSecretKey.text = <<>> THEN empty
        ELSE NoError

(* _populate_metadata: METADATA after the call, given what                  *)
(* get_instance_metadata returned.                                          *)
_populate_metadata(metadata, old) ==
    IF ~metadata.present THEN old
    ELSE LET region_name == SubSeq(metadata.zone, 1, Len(metadata.zone) - 1)
             withId == [k \in (DOMAIN old) \cup {"instance_id"} |->
                           IF k = "instance_id" THEN metadata.instance_id ELSE old[k]]
         IN  IF region_name \in KnownRegions
             THEN [k \in (DOMAIN withId) \cup {"region"} |->
                      IF k = "region" THEN region_name ELSE withId[k]]
             ELSE withId

(* METADATA.get(key) *)
MetadataGet(key) == IF key \in DOMAIN METADATA THEN Some(METADATA[key]) ELSE PyNone

----------------------------------------------------------------------------
(* The command lines and the environment of a run. *)

NamespaceArgs == {<<"App">>}

NameArgs == StringsUpTo({"a", ","}, MaxArgLen)

ValueArgs == StringsUpTo({"1", "x", ","}, MaxArgLen)

UnitArgs == {PyNone} \cup {Some(s) : s \in StringsUpTo({"Count", "Furlongs", ","}, MaxArgLen)}

DimensionArgs ==
    {PyNone, Some(<<"k", "=", "a">>), Some(<<"k", "=", "a", ",", "k", "=", "b">>)}

CredentialLines ==
    { <<"AWSAccessKeyId", "=", "id1", "\n">>,
      <<"AWSAccessKeyId", "=", "id2", "\n">>,
      <<"AWSAccessKeyId", "=", "\n">>,
      <<"AWSSecretKey", "=", "key1", "\n">>,
      <<"AWSSecretKey", "=", "key2", "\n">>,
      <<"AWSSecretKey", "=", "\n">>,
      <<"Other", "=", "x", "\n">>,
      <<"comment", "\n">> }

(* The credential files a run of main is given: present or not, and when    *)
(* present complete, lacking the secret key, or empty.                      *)
MainCredentialFiles ==
    { [exists |-> FALSE, lines |-> <<>>],
      [exists |-> TRUE, lines |-> <<>>],
      [exists |-> TRUE, lines |-> << <<"AWSAccessKeyId", "=", "id1", "\n">> >>],
      [exists |-> TRUE, lines |-> << <<"AWSAccessKeyId", "=", "id1", "\n">>,
                                     <<"AWSSecretKey", "=", "key1", "\n">> >>] }

(* What get_instance_metadata(timeout=5) can return: nothing, or the        *)
(* instance id and availability zone.                                       *)
MetadataResponses ==
    { [present |-> FALSE, instance_id |-> <<>>, zone |-> <<>>],
      [present |-> TRUE, instance_id |-> <<"i-1">>, zone |-> <<"us-east-1", "a">>],
      [present |-> TRUE, instance_id |-> <<"i-1">>, zone |-> <<"mars-1", "a">>],
      [present |-> TRUE, instance_id |-> <<>>, zone |-> <<"us-east-1", "a">>] }

----------------------------------------------------------------------------
(* How a run ends. *)

(* arg_parser.error(message): prints the usage and the message, exits 2. *)
ArgParserError(e) ==
    /\ pc' = "done"
    /\ error' = e
    /\ exit_status' = 2

(* An exception nothing catches: the traceback is printed, exit status 1. *)
Uncaught(e) ==
    /\ pc' = "done"
    /\ error' = e
    /\ exit_status' = 1

(* main returns None and sys.exit(None) exits 0. *)
Returns ==
    /\ pc' = "done"
    /\ error' = NoError
    /\ exit_status' = 0

----------------------------------------------------------------------------
(* main, one action per statement.  The command line is fixed before the    *)
(* run; each argument string is read by exactly one statement, and the      *)
(* model draws it at the statement that reads it.                           *)

Init ==
    /\ pc = "parse_args"
    /\ args = [namespace |-> <<>>, name |-> PyNone, value |-> PyNone,
               unit |-> PyNone, dimensions |-> PyNone,
               credential |-> [exists |-> FALSE, lines |-> <<>>],
               instance_specific |-> FALSE, verify |-> FALSE]
    /\ names = <<>>
    /\ values = <<>>
    /\ units = <<>>
    /\ dimensions = [none |-> TRUE, dict |-> EmptyDict]
    /\ METADATA = EmptyDict
    /\ AWSAccessKeyId = PyNone
    /\ AWSSecretKey = PyNone
    /\ trace = <<>>
    /\ error = NoError
    /\ exit_status = -1
    /\ stdout = <<>>
    /\ published = <<>>

(* parser().parse_args(): the credential argument has type=file, so parsing *)
(* the arguments opens the credential file (the path given, or the default  *)
(* path); the IOError of a missing file leaves parse_args and is handled by *)
(* main's first except clause.                                              *)
ParseArgs ==
    /\ pc = "parse_args"
    /\ \E ns \in NamespaceArgs, v \in BOOLEAN, i \in BOOLEAN, f \in MainCredentialFiles :
          /\ trace' = trace \o <<"parse_args", "open_credential">>
          /\ args' = [args EXCEPT !.namespace = ns, !.verify = v,
                                  !.instance_specific = i, !.credential = f]
          /\ IF f.exists
             THEN pc' = "parse_name" /\ UNCHANGED <<error, exit_status>>
             ELSE ArgParserError([type |-> "IOError",
                                  message |-> "credential file not found"])
    /\ UNCHANGED <<names, values, units, dimensions, METADATA, AWSAccessKeyId,
                   AWSSecretKey, stdout, published>>

ParseName ==
    /\ pc = "parse_name"
    /\ \E s \in NameArgs :
          /\ args' = [args EXCEPT !.name = Some(s)]
          /\ names' = _parse_name(s)
    /\ trace' = Append(trace, "_parse_name")
    /\ pc' = "parse_value"
    /\ UNCHANGED <<values, units, dimensions, METADATA, AWSAccessKeyId,
                   AWSSecretKey, error, exit_status, stdout, published>>

ParseValue ==
    /\ pc = "parse_value"
    /\ \E s \in ValueArgs :
          LET r == _parse_value(s)
          IN  /\ args' = [args EXCEPT !.value = Some(s)]
              /\ IF r.ok
                 THEN /\ values' = r.val
                      /\ pc' = "parse_unit"
                      /\ UNCHANGED <<error, exit_status>>
                 ELSE /\ ArgParserError(r.error)
                      /\ UNCHANGED values
    /\ trace' = Append(trace, "_parse_value")
    /\ UNCHANGED <<names, units, dimensions, METADATA, AWSAccessKeyId,
                   AWSSecretKey, stdout, published>>

ParseUnit ==
    /\ pc = "parse_unit"
    /\ \E u \in UnitArgs :
          LET r == _parse_unit(u)
          IN  /\ args' = [args EXCEPT !.unit = u]
              /\ IF r.ok
                 THEN /\ units' = r.val
                      /\ pc' = "parse_dimension"
                      /\ UNCHANGED <<error, exit_status>>
                 ELSE /\ ArgParserError(r.error)
                      /\ UNCHANGED units
    /\ trace' = Append(trace, "_parse_unit")
    /\ UNCHANGED <<names, values, dimensions, METADATA, AWSAccessKeyId,
                   AWSSecretKey, stdout, published>>

ParseDimension ==
    /\ pc = "parse_dimension"
    /\ \E d \in DimensionArgs :
          /\ args' = [args EXCEPT !.dimensions = d]
          /\ dimensions' = _parse_dimension(d)
    /\ trace' = Append(trace, "_parse_dimension")
    /\ pc' = "check_count"
    /\ UNCHANGED <<names, values, units, METADATA, AWSAccessKeyId,
                   AWSSecretKey, error, exit_status, stdout, published>>

CountNeverMismatch(names_, values_) == FALSE

(* if len(names) != len(values): raise ValueError(...) *)
CountMismatch(names_, values_) == Len(names_) # Len(values_)

CheckCount ==
    /\ pc = "check_count"
    /\ IF CountMismatch(names, values)
       THEN ArgParserError([type |-> "ValueError",
                            message |-> "names should be as many as values."])
       ELSE pc' = "pad_units" /\ UNCHANGED <<error, exit_status>>
    /\ trace' = Append(trace, "check_count")
    /\ UNCHANGED <<args, names, values, units, dimensions, METADATA,
                   AWSAccessKeyId, AWSSecretKey, stdout, published>>

(* The last statement of the try block: once it is done the input is parsed. *)
PadUnitsStep ==
    /\ pc = "pad_units"
    /\ units' = PadUnits(names, units)
    /\ trace' = Append(trace, "parsed")
    /\ pc' = "after_parse"
    /\ UNCHANGED <<args, names, values, dimensions, METADATA, AWSAccessKeyId,
                   AWSSecretKey, error, exit_status, stdout, published>>

DryRunIgnored(a) == FALSE

(* if args.verify: *)
DryRun(a) == a.verify

Min(a, b) == IF a <= b THEN a ELSE b

(* The dry run: the namespace, one line per (name, value, unit) of          *)
(* zip(names, values, units) with the unit 'None' printed as nothing, the   *)
(* dimensions and the instance_specific flag; then main returns.            *)
Verify ==
    /\ pc = "after_parse"
    /\ DryRun(args)
    /\ stdout' =
          << [namespace |-> args.namespace,
              units |-> units,
              metrics |-> [i \in 1..Min(Len(names), Min(Len(values), Len(units))) |->
                             [n |-> names[i], v |-> values[i],
                              u |-> IF units[i] = <<"None">> THEN <<>> ELSE units[i]]],
              dimensions |-> dimensions.dict,
              instance_specific |-> args.instance_specific] >>
    /\ trace' = Append(trace, "print")
    /\ Returns
    /\ UNCHANGED <<args, names, values, units, dimensions, METADATA,
                   AWSAccessKeyId, AWSSecretKey, published>>

(* _populate_metadata() *)
PopulateMetadata ==
    /\ pc = "after_parse"
    /\ ~DryRun(args)
    /\ \E metadata \in MetadataResponses :
          METADATA' = _populate_metadata(metadata, METADATA)
    /\ trace' = trace \o <<"_populate_metadata", "get_instance_metadata">>
    /\ pc' = "populate_credential"
    /\ UNCHANGED <<args, names, values, units, dimensions, AWSAccessKeyId,
                   AWSSecretKey, error, exit_status, stdout, published>>

(* The attribute `attr` of a namespace: an attribute it has not is an       *)
(* AttributeError.                                                          *)
GetAttr(a, attr) ==
    IF attr \in DOMAIN a
    THEN [ok |-> TRUE, val |-> a[attr], error |-> NoError]
    ELSE [ok |-> FALSE, val |-> [exists |-> FALSE, lines |-> <<>>],
          error |-> [type |-> "AttributeError", message |-> attr]]

(* The body of a call _populate_credential(file): it reads the lines of the *)
(* file and returns or raises; the module globals keep their values.        *)
RunPopulateCredential(file, next) ==
    LET e == _populate_credential(file.lines)
    IN  /\ trace' = trace \o <<"_populate_credential", "read_credential">>
        /\ IF e = NoError
           THEN pc' = next /\ UNCHANGED <<error, exit_status>>
           ELSE Uncaught(e)
        /\ UNCHANGED <<AWSAccessKeyId, AWSSecretKey>>

(* _populate_credential(args.credential_path): the argument is evaluated    *)
(* first, and the namespace has the attribute credential, not               *)
(* credential_path.                                                         *)
PopulateCredential ==
    /\ pc = "populate_credential"
    /\ LET file == GetAttr(args, "credential_path")
       IN  IF file.ok
           THEN RunPopulateCredential(file.val, "put_cloudwatch_metric")
           ELSE /\ Uncaught(file.error)
                /\ UNCHANGED <<trace, AWSAccessKeyId, AWSSecretKey>>
    /\ UNCHANGED <<args, names, values, units, dimensions, METADATA, stdout,
                   published>>

(* put_cloudwatch_metric(args.namespace, names, values, dimensions, units,  *)
(* args.instance_specific): the connection is made from the module globals, *)
(* then the instance id is required when instance_specific is set, then the *)
(* one put_metric_data call is made.                                        *)
PutCloudwatchMetric ==
    /\ pc = "put_cloudwatch_metric"
    /\ LET cw == [region |-> MetadataGet("region"),
                  aws_access_key_id |-> AWSAccessKeyId,
                  aws_secret_access_key |-> AWSSecretKey]
           instance_id == MetadataGet("instance_id")
           base == IF dimensions.none \/ dimensions.dict = EmptyDict
                   THEN EmptyDict ELSE dimensions.dict
           updated == [k \in (DOMAIN base) \cup {<<"InstanceId">>} |->
                          IF k = <<"InstanceId">>
                          THEN [kind |-> "str", items |-> <<instance_id.text>>]
                          ELSE base[k]]
       IN  IF args.instance_specific /\ ~Truthy(instance_id)
           THEN /\ Uncaught([type |-> "ValueError", message |-> "Instance id is empty"])
                /\ trace' = trace \o <<"put_cloudwatch_metric", "CloudWatchConnection">>
                /\ UNCHANGED published
           ELSE /\ published' = Append(published,
                      [connection |-> cw,
                       namespace |-> args.namespace,
                       name |-> names,
                       value |-> values,
                       unit |-> units,
                       dimensions |-> IF args.instance_specific
                                      THEN [none |-> FALSE, dict |-> updated]
                                      ELSE dimensions])
                /\ trace' = trace \o <<"put_cloudwatch_metric", "CloudWatchConnection",
                                        "put_metric_data">>
                /\ Returns
    /\ UNCHANGED <<args, names, values, units, dimensions, METADATA,
                   AWSAccessKeyId, AWSSecretKey, stdout>>

(* A run of main.  Line 209 always raises, so put_cloudwatch_metric is not  *)
(* a step of it (PutUnreachable).                                           *)
Next ==
    \/ ParseArgs
    \/ ParseName
    \/ ParseValue
    \/ ParseUnit
    \/ ParseDimension
    \/ CheckCount
    \/ PadUnitsStep
    \/ Verify
    \/ PopulateMetadata
    \/ PopulateCredential

Spec == Init /\ [][Next]_vars

PutUnreachable == pc # "put_cloudwatch_metric"

NamespaceShape == DOMAIN args = ArgDests

----------------------------------------------------------------------------
(* The credential resolver and the publisher called as functions of the     *)
(* module: _populate_credential on an open credential file of up to         *)
(* MaxCredLines lines, then put_cloudwatch_metric on one parsed metric.     *)

CredentialFiles ==
    {[exists |-> TRUE, lines |-> l] : l \in StringsUpTo(CredentialLines, MaxCredLines)}

CredentialInit ==
    /\ pc = "call_populate_credential"
    /\ \E f \in CredentialFiles, i \in BOOLEAN :
          args = [namespace |-> <<"App">>, name |-> Some(<<"a">>),
                  value |-> Some(<<"1">>), unit |-> PyNone, dimensions |-> PyNone,
                  credential |-> f, instance_specific |-> i, verify |-> FALSE]
    /\ names = _parse_name(<<"a">>)
    /\ values = _parse_value(<<"1">>).val
    /\ units = PadUnits(_parse_name(<<"a">>), _parse_unit(PyNone).val)
    /\ dimensions = _parse_dimension(PyNone)
    /\ \E metadata \in MetadataResponses :
          METADATA = _populate_metadata(metadata, EmptyDict)
    /\ AWSAccessKeyId = PyNone
    /\ AWSSecretKey = PyNone
    /\ trace = <<>>
    /\ error = NoError
    /\ exit_status = -1
    /\ stdout = <<>>
    /\ published = <<>>

CallPopulateCredential ==
    /\ pc = "call_populate_credential"
    /\ RunPopulateCredential(args.credential, "put_cloudwatch_metric")
    /\ UNCHANGED <<args, names, values, units, dimensions, METADATA, stdout,
                   published>>

CredentialNext ==
    \/ CallPopulateCredential
    \/ PutCloudwatchMetric

SpecCredential == CredentialInit /\ [][CredentialNext]_vars

----------------------------------------------------------------------------
(* The dimension parser called on every dimension string of up to MaxDimLen *)
(* symbols.                                                                 *)

DimensionStrings == StringsUpTo({"k", "v", "=", ","}, MaxDimLen)

DimensionInit ==
    /\ pc = "call_parse_dimension"
    /\ \E d \in {PyNone} \cup {Some(s) : s \in DimensionStrings} :
          args = [namespace |-> <<"App">>, name |-> PyNone, value |-> PyNone,
                  unit |-> PyNone, dimensions |-> d,
                  credential |-> [exists |-> FALSE, lines |-> <<>>],
                  instance_specific |-> FALSE, verify |-> FALSE]
    /\ names = <<>>
    /\ values = <<>>
    /\ units = <<>>
    /\ dimensions = [none |-> TRUE, dict |-> EmptyDict]
    /\ METADATA = EmptyDict
    /\ AWSAccessKeyId = PyNone
    /\ AWSSecretKey = PyNone
    /\ trace = <<>>
    /\ error = NoError
    /\ exit_status = -1
    /\ stdout = <<>>
    /\ published = <<>>

CallParseDimension ==
    /\ pc = "call_parse_dimension"
    /\ dimensions' = _parse_dimension(args.dimensions)
    /\ trace' = Append(trace, "_parse_dimension")
    /\ pc' = "returned"
    /\ UNCHANGED <<args, names, values, units, METADATA, AWSAccessKeyId,
                   AWSSecretKey, error, exit_status, stdout, published>>

DimensionNext == CallParseDimension

SpecDimension == DimensionInit /\ [][DimensionNext]_vars

----------------------------------------------------------------------------
(* What the properties are stated with: strings cut at the positions of a   *)
(* separator, read off the raw input without the parsing functions.         *)

Has(ev) == \E i \in 1..Len(trace) : trace[i] = ev

(* The positions of sep in s, with 0 and Len(s) + 1 as the two ends. *)
Cuts(s, sep) == {0, Len(s) + 1} \cup {i \in 1..Len(s) : s[i] = sep}

NumPieces(s, sep) == Cardinality(Cuts(s, sep)) - 1

(* The j-th piece of s between two neighbouring cuts. *)
Piece(s, sep, j) ==
    LET c == Cuts(s, sep)
        lo == CHOOSE a \in c : Cardinality({b \in c : b < a}) = j - 1
        hi == CHOOSE a \in c : Cardinality({b \in c : b < a}) = j
    IN  SubSeq(s, lo + 1, hi - 1)

FirstEq(p) ==
    IF \E i \in 1..Len(p) : p[i] = "="
    THEN CHOOSE i \in 1..Len(p) : p[i] = "=" /\ \A h \in 1..(i - 1) : p[h] # "="
    ELSE Len(p) + 1

KeyOf(p) == SubSeq(p, 1, FirstEq(p) - 1)

ValueOf(p) == SubSeq(p, FirstEq(p) + 1, Len(p))

(* The values given for key k in the dimension string s, in order. *)
ValuesFor(s, k) ==
    LET n == NumPieces(s, ",")
        idx == SelectSeq([i \in 1..n |-> i], LAMBDA i : KeyOf(Piece(s, ",", i)) = k)
    IN  [j \in 1..Len(idx) |-> ValueOf(Piece(s, ",", idx[j]))]

----------------------------------------------------------------------------
(* C8: for every non-empty dimension string, the dict _parse_dimension      *)
(* returns has exactly the keys of the string's comma-separated pairs (the  *)
(* text before a pair's first '='), and maps a key given once to the bare   *)
(* text after that pair's first '=', and a key given several times to the   *)
(* tuple of all its values in order of appearance, duplicates kept.         *)
C8_ParseDimension ==
    (pc = "returned" /\ Truthy(args.dimensions)) =>
        LET s == args.dimensions.text
            keys == {KeyOf(Piece(s, ",", i)) : i \in 1..NumPieces(s, ",")}
        IN  /\ ~dimensions.none
            /\ DOMAIN dimensions.dict = keys
            /\ \A k \in keys :
                  LET vs == ValuesFor(s, k)
                  IN  dimensions.dict[k] =
                        IF Len(vs) = 1 THEN [kind |-> "str", items |-> vs]
                        ELSE [kind |-> "tuple", items |-> vs]

(* A key given twice with the same value, the value holding an '='. *)
C8_Witness ==
    /\ pc = "returned"
    /\ \E k \in DOMAIN dimensions.dict :
          /\ k # <<>>
          /\ dimensions.dict[k].kind = "tuple"
          /\ Len(dimensions.dict[k].items) = 2
          /\ dimensions.dict[k].items[1] = dimensions.dict[k].items[2]
          /\ \E i \in 1..Len(dimensions.dict[k].items[1]) :
                dimensions.dict[k].items[1][i] = "="

----------------------------------------------------------------------------
(* The credential file as the properties read it. *)

(* The lines of the file that assign field: 'field=...'. *)
FieldLines(lines, field) ==
    SelectSeq(lines, LAMBDA l : FirstEq(l) <= Len(l) /\ KeyOf(l) = field)

FieldPresent(lines, field) == FieldLines(lines, field) # <<>>

(* The value of the last occurrence of field: the text between the first    *)
(* '=' and the end of the line (or a second '='), without the newline.      *)
FieldValue(lines, field) ==
    LET l == FieldLines(lines, field)[Len(FieldLines(lines, field))]
    IN  Strip(KeyOf(ValueOf(l)), "\n")

HoldsField(lines, field) ==
    FieldPresent(lines, field) /\ FieldValue(lines, field) # <<>>

HoldsBothFields(lines) ==
    HoldsField(lines, <<"AWSAccessKeyId">>) /\ HoldsField(lines, <<"AWSSecretKey">>)

Recognized(l) ==
    FirstEq(l) <= Len(l) /\ KeyOf(l) \in {<<"AWSAccessKeyId">>, <<"AWSSecretKey">>}

EmptyCredentialError ==
    [type |-> "ValueError", message |-> "AWSAccessKeyId or AWSSecretKey is empty"]

(* _populate_credential has just returned or raised. *)
CredentialScanned == trace = <<"_populate_credential", "read_credential">>

(* C9: whenever put_metric_data is called, the connection it is called on   *)
(* was opened with the access key id and the secret key that                *)
(* _populate_credential took from the credential file in the same run (the  *)
(* last occurrence of each field), never with the unset initial values.     *)
C9_Claim ==
    \A i \in 1..Len(published) :
        /\ HoldsBothFields(args.credential.lines)
        /\ published[i].connection.aws_access_key_id =
              Some(FieldValue(args.credential.lines, <<"AWSAccessKeyId">>))
        /\ published[i].connection.aws_secret_access_key =
              Some(FieldValue(args.credential.lines, <<"AWSSecretKey">>))

(* C10: once all lines are scanned, _populate_credential raises the         *)
(* ValueError 'AWSAccessKeyId or AWSSecretKey is empty' whenever one of the *)
(* two fields is absent or has an empty value, returns normally when both   *)
(* are present and non-empty, and the outcome is that of the same file      *)
(* without its unrecognized lines.                                          *)
C10_Claim ==
    CredentialScanned =>
        LET lines == args.credential.lines
        IN  /\ ~HoldsBothFields(lines) => error = EmptyCredentialError
            /\ HoldsBothFields(lines) => error = NoError
            /\ error = _populate_credential(SelectSeq(lines, Recognized))

----------------------------------------------------------------------------
(* The command line of a run of main as the properties read it. *)

Parsed == Has("parsed")

CountsDiffer ==
    /\ args.name.given
    /\ args.value.given
    /\ NumPieces(args.name.text, ",") # NumPieces(args.value.text, ",")

BadFloat ==
    /\ args.value.given
    /\ \E j \in 1..NumPieces(args.value.text, ",") :
          ~IsFloat(Piece(args.value.text, ",", j))

BadUnit ==
    /\ Truthy(args.unit)
    /\ \E j \in 1..NumPieces(args.unit.text, ",") :
          Piece(args.unit.text, ",", j) \notin UNIT_CHOICES

Malformed == CountsDiffer \/ BadFloat \/ BadUnit

(* The units given on the command line, before any padding. *)
SuppliedUnits ==
    IF Truthy(args.unit)
    THEN [j \in 1..NumPieces(args.unit.text, ",") |-> Piece(args.unit.text, ",", j)]
    ELSE <<>>

CountMismatchError ==
    [type |-> "ValueError", message |-> "names should be as many as values."]

InstanceIdError == [type |-> "ValueError", message |-> "Instance id is empty"]

(* The I/O steps of a run, in order. *)
IOTrace(steps) == SelectSeq(trace, LAMBDA ev : ev \in steps)

(* C1 as claimed: no I/O step, the opening of the credential file included, *)
(* comes before the names, values, units and dimensions are parsed and the  *)
(* count check has passed, and a run on malformed input makes none.         *)
C1_Claim ==
    LET io == {"open_credential", "read_credential", "get_instance_metadata",
               "put_metric_data"}
    IN  /\ \A i \in 1..Len(trace) :
              trace[i] \in io => \E j \in 1..(i - 1) : trace[j] = "parsed"
        /\ Malformed => IOTrace(io) = <<>>

(* C1, amended: no metadata fetch, credential read or publish call comes    *)
(* before parsing and the count check have succeeded, and a run on          *)
(* malformed input makes none of the three; the credential file itself is   *)
(* opened by parse_args, before anything is parsed.                         *)
C1_NoIOBeforeParsed ==
    LET io == {"read_credential", "get_instance_metadata", "put_metric_data"}
    IN  /\ \A i \in 1..Len(trace) :
              trace[i] \in io => \E j \in 1..(i - 1) : trace[j] = "parsed"
        /\ Malformed => IOTrace(io) = <<>>
        /\ \A i \in 1..Len(trace) :
              trace[i] = "open_credential" =>
                  \A j \in 1..i : trace[j] \notin {"_parse_name", "parsed"}

(* The metadata service has been asked, after the input was parsed. *)
C1_Witness ==
    /\ Parsed
    /\ ~Malformed
    /\ IOTrace({"open_credential", "get_instance_metadata"}) =
          <<"open_credential", "get_instance_metadata">>

(* C2: with verify set, once parsing has succeeded the run prints and       *)
(* returns with status 0, and never calls _populate_credential,             *)
(* _populate_metadata or put_cloudwatch_metric / put_metric_data, whatever  *)
(* the other arguments are.                                                 *)
C2_DryRunCallsNothing ==
    (args.verify /\ Parsed) =>
        /\ IOTrace({"_populate_credential", "_populate_metadata",
                    "put_cloudwatch_metric", "put_metric_data",
                    "get_instance_metadata", "read_credential"}) = <<>>
        /\ pc \in {"after_parse", "done"}
        /\ pc = "after_parse" => ENABLED Verify
        /\ pc = "done" => exit_status = 0 /\ Has("print") /\ published = <<>>

(* A finished dry run with instance_specific set. *)
C2_Witness ==
    /\ pc = "done"
    /\ args.verify
    /\ args.instance_specific
    /\ Has("print")

(* C3 as claimed: a run without verify and with instance_specific, on input *)
(* that parses and a credential file with both fields, for which the        *)
(* metadata lookup gave no instance id, ends with the error 'Instance id is *)
(* empty' and without a put_metric_data call.                               *)
C3_Claim ==
    ( /\ pc = "done"
      /\ ~args.verify
      /\ args.instance_specific
      /\ Parsed
      /\ HoldsBothFields(args.credential.lines)
      /\ ~Truthy(MetadataGet("instance_id")) ) =>
        /\ error = InstanceIdError
        /\ ~Has("put_metric_data")

(* A validation failure of the run: one was raised (a ValueError of the     *)
(* parsers, the count check or the resolvers, the IOError of a missing      *)
(* credential file), or the input of the run has one: the counts differ, a  *)
(* value is no float, a unit is not a unit, or, without verify, the         *)
(* credential file lacks a field or instance_specific is set and the        *)
(* metadata lookup gave no instance id.                                     *)
ValidationFailure ==
    \/ error.type \in {"ValueError", "IOError"}
    \/ Malformed
    \/ Parsed /\ ~args.verify /\ ~HoldsBothFields(args.credential.lines)
    \/ /\ Has("get_instance_metadata")
       /\ args.instance_specific
       /\ ~Truthy(MetadataGet("instance_id"))

(* C4: a run in which a validation failure occurs ends with a non-zero exit *)
(* status and has made no put_metric_data call.                             *)
C4_FailureExitsNonZero ==
    (pc = "done" /\ ValidationFailure) =>
        /\ exit_status \in {1, 2}
        /\ Count("put_metric_data") = 0
        /\ published = <<>>

(* A dry run stopped by a unit that is not in UNIT_CHOICES. *)
C4_Witness ==
    /\ pc = "done"
    /\ args.verify
    /\ BadUnit
    /\ error.type = "ValueError"
    /\ exit_status = 2

C6_Claim ==
    ( /\ pc = "done"
      /\ ~args.verify
      /\ Parsed
      /\ HoldsBothFields(args.credential.lines)
      /\ ~args.instance_specific \/ Truthy(MetadataGet("instance_id")) ) =>
        /\ IOTrace({"get_instance_metadata", "read_credential", "put_metric_data"})
              = <<"get_instance_metadata", "read_credential", "put_metric_data">>
        /\ Len(published) = 1
        /\ published[1].namespace = args.namespace
        /\ published[1].name = names
        /\ published[1].value = values
        /\ published[1].unit = units
        /\ exit_status = 0

(* C7 as claimed: once parsing has succeeded, the units handed on are the   *)
(* units given followed by 'None' for every missing position, and are as    *)
(* many as the names and the values, however many units were given.         *)
C7_Claim ==
    Parsed =>
        /\ Len(units) = Len(names)
        /\ Len(units) = Len(values)
        /\ units = SuppliedUnits \o Repeat(<<"None">>, Len(names) - Len(SuppliedUnits))

====
